---- MODULE Spec2Model ----
(***************************************************************************)
(* A model of the arXiv query engine of src/api/retrieve_paper.py:         *)
(* SearchQuery.__init__ (query rendering), parse_valid_response and        *)
(* parse_error (XML envelope parsing) and the paginated retrieval          *)
(* retrieve_search_results / retrieve_valid_search_results.                *)
(*                                                                         *)
(* Python strings that are built or taken apart by the code are sequences  *)
(* of chunks (concatenation is \o); other texts are TLA+ strings.  An      *)
(* optional value (find() returning None, a missing attribute) is a        *)
(* sequence of length 0 or 1.                                              *)
(***************************************************************************)
EXTENDS Integers, Sequences, FiniteSets, TLC

VARIABLES
    args,       \* the arguments SearchQuery.__init__ is called with
    self,       \* the SearchQuery object: built, start, max_result, query
    xml,        \* the response body under parse (parsing specification)
    parsed,     \* what parse_valid_response returned or raised for xml
    phase,      \* per retrieval: "idle", "gen", "error_msg", "raised", "exhausted"
    started,    \* per retrieval: the generator body has begun to run
    g_start,    \* per retrieval: the generator's local `start`
    g_space,    \* per retrieval: the generator's local `space`
    g_end,      \* per retrieval: the generator's local `end`
    count,      \* per retrieval: the generator's local `count`
    reqs,       \* per retrieval: the requests issued so far, in order
    batches,    \* per retrieval: the page batches yielded so far, in order
    pulls,      \* per retrieval: the next() calls the consumer has made
    stops,      \* per retrieval: the next() calls answered with StopIteration
    surfaced,   \* per retrieval: the value or exception the caller got
    meta,       \* per retrieval: the response to the starting request
    fatalAt     \* history: per retrieval, index of the first request that met a fatal condition (0: none)

vars == <<args, self, xml, parsed, phase, started, g_start, g_space, g_end,
          count, reqs, batches, pulls, stops, surfaced, meta, fatalAt>>

queryVars == <<args, self>>
parseVars == <<xml, parsed>>
genVars == <<phase, started, g_start, g_space, g_end, count, reqs, batches,
             pulls, stops, surfaced, meta, fatalAt>>

(***************************************************************************)
(* Bounds of the model.                                                    *)
(***************************************************************************)
MaxStart == 2       \* SearchQuery.start ranges over 0..MaxStart
MaxSpace == 2       \* SearchQuery.max_result ranges over 1..MaxSpace
MaxTotal == 2       \* totalResults of a response ranges over 0..MaxTotal
MaxPulls == 5       \* next() calls made on a finished generator stop here
MaxEntries == 2     \* entries of a parsed envelope
MaxTerms == 2       \* terms of the title group and of the id group

Sessions == {1, 2}

(***************************************************************************)
(* Sequence helpers.                                                       *)
(***************************************************************************)
SeqsUpTo(S, n) == UNION {[1..k -> S] : k \in 0..n}

RECURSIVE Flatten(_)
Flatten(ss) == IF ss = <<>> THEN <<>> ELSE Head(ss) \o Flatten(Tail(ss))

Last(s) == s[Len(s)]


(***************************************************************************)
(* Exceptions: an operator that can raise returns Ok(v) or Raise(e).       *)
(***************************************************************************)
Ok(v) == [ok |-> TRUE, exc |-> "", val |-> <<v>>]
Raise(e) == [ok |-> FALSE, exc |-> e, val |-> <<>>]

(***************************************************************************)
(* SearchQuery.__init__: the rendered query string.                        *)
(***************************************************************************)
BASE_QUERY_URL == <<"http://export.arxiv.org/api/query/?">>
BASE_ARXIV_URL == "http://arxiv.org/abs/"

Terms == {<<"a">>, <<"b">>}
IdTerms == {<<"1">>, <<"2">>}

\* sep.join(parts) of Python
RECURSIVE join(_, _)
join(sep, parts) ==
    IF parts = <<>> THEN <<>>
    ELSE IF Len(parts) = 1 THEN parts[1]
    ELSE parts[1] \o sep \o join(sep, Tail(parts))

\* search_codes_to_params: a dict, iterated in insertion order
search_codes_to_params(a) ==
    << [code |-> "ti", params |-> a.title_args],
       [code |-> "au", params |-> a.author_args],
       [code |-> "abs", params |-> a.abstract_args] >>

\* f'{code}:{param}'
format_param(code, param) == <<code, ":">> \o param

\* list(i.chain.from_iterable([[f'{code}:{param}' for param in params] for code, params in ...]))
formatted_list(a) ==
    LET m == search_codes_to_params(a)
    IN Flatten([k \in 1..Len(m) |->
                  [j \in 1..Len(m[k].params) |-> format_param(m[k].code, m[k].params[j])]])

\* ('id_list=' + ','.join(id_args)) if id_args else ''
id_fragment(a) ==
    IF a.id_args # <<>> THEN <<"id_list=">> \o join(<<",">>, a.id_args) ELSE <<>>

\* ('search_query=' + '+AND+'.join(formatted_params)) if formatted_params else ''
search_fragment(a) ==
    IF formatted_list(a) # <<>>
    THEN <<"search_query=">> \o join(<<"+AND+">>, formatted_list(a))
    ELSE <<>>

\* mutant: the free-text fragment is dropped when an id list is present
render_params_ids_win(a) ==
    IF id_fragment(a) # <<>> THEN id_fragment(a) ELSE search_fragment(a)

\* the if / elif / elif that combines the two fragments
render_params(a) ==
    IF search_fragment(a) # <<>> /\ id_fragment(a) # <<>>
    THEN search_fragment(a) \o id_fragment(a)
    ELSE IF id_fragment(a) # <<>> THEN id_fragment(a)
    ELSE IF search_fragment(a) # <<>> THEN search_fragment(a)
    ELSE <<>>

\* the object __init__ leaves behind; start and max_result are kept by the
\* base class constructor as given (they are read back as self.start and
\* self.max_result by get_response_with_starting_query)
SearchQuery(a) ==
    [built |-> TRUE, start |-> a.start, max_result |-> a.max_result,
     query |-> BASE_QUERY_URL \o render_params(a)]

Unbuilt == [built |-> FALSE, start |-> 0, max_result |-> 0, query |-> <<>>]

QueryArgs ==
    [title_args : SeqsUpTo(Terms, MaxTerms), author_args : SeqsUpTo(Terms, 1),
     abstract_args : SeqsUpTo(Terms, 1), id_args : SeqsUpTo(IdTerms, MaxTerms),
     max_result : 1..MaxSpace, start : 0..MaxStart]

\* the queries the retrieval specification starts from
EngineArgs ==
    [title_args : {<< <<"a">> >>}, author_args : {<<>>}, abstract_args : {<<>>},
     id_args : {<<>>}, max_result : 1..MaxSpace, start : 0..MaxStart]

(***************************************************************************)
(* XML envelopes.  An element is a record from child tag to the sequence   *)
(* of its children with that tag, in document order; a text-only child is  *)
(* identified with its text.  A body that is not well-formed has wf FALSE. *)
(***************************************************************************)
Dates == {"d1", "d2"}
MaxUpdated == 2

Opt(S) == {<<>>} \cup {<<x>> : x \in S}

IdTexts == {<<"1">>, <<BASE_ARXIV_URL, "1">>, <<"1", BASE_ARXIV_URL>>}

Links == [title : {<<>>, <<"">>, <<"pdf">>}, href : {<<"h1">>, <<"h2">>}]
LinkSeqs == {<<>>} \cup {<<l>> : l \in Links}
            \cup {<<[title |-> <<>>, href |-> <<"h1">>], [title |-> <<"pdf">>, href |-> <<"h2">>]>>,
                  <<[title |-> <<"pdf">>, href |-> <<"h1">>], [title |-> <<"doi">>, href |-> <<"h2">>]>>,
                  <<[title |-> <<"pdf">>, href |-> <<>>]>>}

Authors == [name : Opt({"n1", "n2"})]
AuthorSeqs == {<<>>, <<[name |-> <<"n1">>]>>, <<[name |-> <<"n1">>], [name |-> <<"n2">>]>>,
               <<[name |-> <<"n2">>], [name |-> <<"n1">>]>>, <<[name |-> <<"n1">>], [name |-> <<>>]>>}

Entry(t, i, s, p, u, l, a) ==
    [title |-> t, id |-> i, summary |-> s, published |-> p, updated |-> u,
     link |-> l, author |-> a]

GoodEntry == Entry(<<"T">>, <<<<BASE_ARXIV_URL, "1">>>>, <<"S">>, <<"d0">>, <<>>, <<>>,
                   <<[name |-> <<"n1">>]>>)

\* entries that vary in their scalar fields, in their id, dates, links or authors
ScalarEntries ==
    {Entry(t, <<<<"1">>>>, s, p, <<>>, <<>>, <<>>) :
        t \in Opt({"T"}), s \in Opt({"S"}), p \in Opt({"d0"})}
IdEntries == {[GoodEntry EXCEPT !.id = i] : i \in Opt(IdTexts)}
DateEntries ==
    {Entry(<<"T">>, <<<<"1">>>>, <<"S">>, p, u, <<>>, <<>>) :
        p \in Opt({"d0"}), u \in SeqsUpTo(Dates, MaxUpdated)}
LinkEntries == {[GoodEntry EXCEPT !.link = l] : l \in LinkSeqs}
AuthorEntries == {[GoodEntry EXCEPT !.author = a] : a \in AuthorSeqs}
Entries == ScalarEntries \cup IdEntries \cup DateEntries \cup LinkEntries \cup AuthorEntries

Feed(total, entries) == [wf |-> TRUE, totalResults |-> total, entry |-> entries]
Malformed == [wf |-> FALSE, totalResults |-> <<>>, entry |-> <<>>]

Documents == {Malformed} \cup {Feed(<<1>>, es) : es \in SeqsUpTo(Entries, MaxEntries)}


(***************************************************************************)
(* Namespace-aware navigation.                                             *)
(***************************************************************************)
\* parent.findall(XML_ATOM_ROOT + tag)
get_atom_children(parent, tag) == parent[tag]

\* parent.find(XML_ATOM_ROOT + tag): the first such child, or None
get_atom_child(parent, tag) ==
    IF parent[tag] = <<>> THEN <<>> ELSE <<parent[tag][1]>>

\* self.get_atom_child(parent, tag).text: None has no attribute 'text'
get_atom_child_text(parent, tag) ==
    IF get_atom_child(parent, tag) = <<>>
    THEN Raise("AttributeError")
    ELSE Ok(get_atom_child(parent, tag)[1])

\* parent.find(XML_OPEN_SEARCH_ROOT + tag)
get_open_search_child(parent, tag) ==
    IF parent[tag] = <<>> THEN <<>> ELSE <<parent[tag][1]>>

\* xe.ElementTree.fromstring(text): raises on text that is not well-formed
get_xml_tree(text) == IF text.wf THEN Ok(text) ELSE Raise("ParseError")

(***************************************************************************)
(* parse_valid_response, one entry at a time.                              *)
(***************************************************************************)
\* if arxiv_id.startswith(BASE_ARXIV_URL): arxiv_id = arxiv_id[len(BASE_ARXIV_URL):]
strip_base(arxiv_id) ==
    IF Len(arxiv_id) >= 1 /\ arxiv_id[1] = BASE_ARXIV_URL THEN Tail(arxiv_id) ELSE arxiv_id

\* mutant: the first `updated` element wins
select_date_first(published, updated_dates) ==
    IF updated_dates # <<>> THEN updated_dates[1] ELSE published

\* date = published text; if updated_dates: date = updated_dates[-1].text
select_date(published, updated_dates) ==
    IF updated_dates # <<>> THEN updated_dates[Len(updated_dates)] ELSE published

\* the href of the first link with a truthy title attribute, else None
RECURSIVE select_pdf_link(_)
select_pdf_link(links) ==
    IF links = <<>> THEN <<>>
    ELSE IF links[1].title # <<>> /\ links[1].title[1] # "" THEN links[1].href
    ELSE select_pdf_link(Tail(links))

\* [self.get_atom_child(author, 'name').text for author in ...]
author_names(authors) ==
    IF \E k \in 1..Len(authors) : get_atom_child(authors[k], "name") = <<>>
    THEN Raise("AttributeError")
    ELSE Ok([k \in 1..Len(authors) |-> get_atom_child(authors[k], "name")[1]])

\* the body of the for loop: one SearchResult, or the exception it raises
parse_entry(entry) ==
    LET title == get_atom_child_text(entry, "title")
        arxiv_id == get_atom_child_text(entry, "id")
        abstract == get_atom_child_text(entry, "summary")
        date == get_atom_child_text(entry, "published")
        authors == author_names(get_atom_children(entry, "author"))
    IN  IF ~title.ok THEN title
        ELSE IF ~arxiv_id.ok THEN arxiv_id
        ELSE IF ~abstract.ok THEN abstract
        ELSE IF ~date.ok THEN date
        ELSE IF ~authors.ok THEN authors
        ELSE Ok([title |-> title.val[1],
                 id |-> strip_base(arxiv_id.val[1]),
                 abstract |-> abstract.val[1],
                 authors |-> authors.val[1],
                 pdf_url |-> select_pdf_link(get_atom_children(entry, "link")),
                 publish |-> select_date(date.val[1], get_atom_children(entry, "updated")),
                 keywords |-> {}])

\* parse_valid_response: the list of SearchResults, or the first exception
parse_valid_response(xml_response) ==
    LET root == get_xml_tree(xml_response) IN
    IF ~root.ok THEN root
    ELSE LET entries == get_atom_children(root.val[1], "entry")
             results == [k \in 1..Len(entries) |-> parse_entry(entries[k])]
         IN IF \E k \in 1..Len(entries) : ~results[k].ok
            THEN results[CHOOSE k \in 1..Len(entries) :
                            /\ ~results[k].ok
                            /\ \A j \in 1..(k - 1) : results[j].ok]
            ELSE Ok([k \in 1..Len(entries) |-> results[k].val[1]])

\* parse_error: the text of the summary of the first entry
parse_error(error_msg) ==
    LET root == get_xml_tree(error_msg) IN
    IF ~root.ok THEN root
    ELSE LET entry == get_atom_child(root.val[1], "entry") IN
         IF entry = <<>> THEN Raise("AttributeError")
         ELSE IF get_atom_child(entry[1], "summary") = <<>> THEN Raise("AttributeError")
         ELSE Ok(get_atom_child(entry[1], "summary")[1])

\* list(enumerate(search_results))
enumerate(results) == [k \in 1..Len(results) |-> <<k - 1, results[k]>>]


(***************************************************************************)
(* Transport.  r.get either raises (no connection) or returns a response   *)
(* with a status (ok) and a body (text).                                   *)
(***************************************************************************)
ErrorTexts == {"Invalid id list", "bad start"}

\* the entry of the service's error envelope: its summary holds the message
ErrorEntry(m) ==
    Entry(<<"Error">>, <<<<"http://arxiv.org/api/errors">>>>, <<m>>, <<>>, <<"d1">>, <<>>,
          <<[name |-> <<"arXiv api core">>]>>)

EngineEntrySeqs ==
    {<<>>, <<GoodEntry>>, <<[GoodEntry EXCEPT !.summary = <<>>]>>}
    \cup {<<ErrorEntry(m)>> : m \in ErrorTexts}

Bodies ==
    {Malformed} \cup {Feed(t, es) : t \in Opt(0..MaxTotal), es \in EngineEntrySeqs}

ConnectionError == [exc |-> TRUE, ok |-> FALSE, text |-> Malformed]
Responses == {ConnectionError} \cup [exc : {FALSE}, ok : BOOLEAN, text : Bodies]

\* the answers two interleaved retrievals are given
TwoResponses ==
    {ConnectionError}
    \cup [exc : {FALSE}, ok : BOOLEAN,
          text : {Malformed} \cup {Feed(<<t>>, <<GoodEntry>>) : t \in 0..MaxTotal}]

\* the request get_response_with_limited_query(start, space) sends
Request(q, start, space) == [query |-> q.query, start |-> start, space |-> space]

\* get_response_with_starting_query
StartingRequest(q) == Request(q, q.start, q.max_result)

(***************************************************************************)
(* retrieve_search_results on the response to the starting request.        *)
(***************************************************************************)
\* mutant: the status of the response is not looked at
retrieve_search_results_no_status(q, response) ==
    IF response.exc THEN [kind |-> "raise", text |-> "ConnectionError", end |-> 0]
    ELSE IF ~get_xml_tree(response.text).ok
         THEN [kind |-> "raise", text |-> "ParseError", end |-> 0]
    ELSE IF get_open_search_child(response.text, "totalResults") = <<>>
         THEN [kind |-> "raise", text |-> "AttributeError", end |-> 0]
    ELSE [kind |-> "generator", text |-> "",
          end |-> get_open_search_child(response.text, "totalResults")[1]]

retrieve_search_results(q, response) ==
    IF response.exc THEN [kind |-> "raise", text |-> "ConnectionError", end |-> 0]
    ELSE IF response.ok
    THEN IF ~get_xml_tree(response.text).ok
         THEN [kind |-> "raise", text |-> "ParseError", end |-> 0]
         ELSE IF get_open_search_child(response.text, "totalResults") = <<>>
         THEN [kind |-> "raise", text |-> "AttributeError", end |-> 0]
         ELSE [kind |-> "generator", text |-> "",
               end |-> get_open_search_child(response.text, "totalResults")[1]]
    ELSE IF parse_error(response.text).ok
         THEN [kind |-> "message", text |-> parse_error(response.text).val[1], end |-> 0]
         ELSE [kind |-> "raise", text |-> parse_error(response.text).exc, end |-> 0]

(***************************************************************************)
(* retrieve_valid_search_results: the generator.                           *)
(***************************************************************************)
\* mutant: a page that starts exactly at `end` is not fetched
loop_breaks_at_end(start, end) == start >= end

\* if start > end: break
loop_breaks(start, end) == start > end

\* mutant: the cursor is kept on the query object, shared by its retrievals
advance_shared(cursors, i, space) == [j \in DOMAIN cursors |-> cursors[j] + space]

\* start += space, on the generator's own local
advance(cursors, i, space) == [cursors EXCEPT ![i] = @ + space]

\* what a page's response does to the generator: a batch, or an exception
page_outcome(response) ==
    IF response.exc THEN Raise("ConnectionError")
    ELSE parse_valid_response(response.text)


\* mutant: the pages resume after the window the starting request covered
generator_args_skip(q, total_results) ==
    [start |-> q.start + q.max_result, space |-> q.max_result, end |-> total_results]

\* self.retrieve_valid_search_results(self.start, self.max_result, total_results)
generator_args(q, total_results) ==
    [start |-> q.start, space |-> q.max_result, end |-> total_results]

\* mutant: an iteration also requests the page after the one it parses
page_requests_prefetch(q, start, space) ==
    <<Request(q, start, space), Request(q, start + space, space)>>

\* the requests one iteration of the loop issues
page_requests(q, start, space) == <<Request(q, start, space)>>

(***************************************************************************)
(* Conditions the retrieval meets, as the service and transport define     *)
(* them: an error envelope is a well-formed body whose first entry has a   *)
(* summary; a transport failure is no connection, or a non-ok response     *)
(* that is no error envelope.                                              *)
(***************************************************************************)
IsErrorEnvelope(body) ==
    body.wf /\ body.entry # <<>> /\ body.entry[1].summary # <<>>

TransportFailure(response) ==
    response.exc \/ (~response.ok /\ ~IsErrorEnvelope(response.text))

FatalCondition(response) ==
    response.exc \/ ~response.text.wf \/ TransportFailure(response)

NoResponse == [exc |-> FALSE, ok |-> FALSE, text |-> Malformed]
NothingSurfaced == [kind |-> "none", text |-> ""]

MarkFatal(i, response, n) ==
    fatalAt' = [fatalAt EXCEPT ![i] = IF @ = 0 /\ FatalCondition(response) THEN n ELSE @]

(***************************************************************************)
(* Actions of a retrieval i on the query object self.                      *)
(***************************************************************************)
\* results = self.retrieve_search_results()
Retrieve(i, R) ==
    /\ self.built /\ phase[i] = "idle"
    /\ \E response \in R :
         LET r == retrieve_search_results(self, response)
             g == generator_args(self, r.end)
         IN /\ reqs' = [reqs EXCEPT ![i] = <<StartingRequest(self)>>]
            /\ meta' = [meta EXCEPT ![i] = response]
            /\ phase' = [phase EXCEPT ![i] =
                            CASE r.kind = "generator" -> "gen"
                              [] r.kind = "message" -> "message"
                              [] OTHER -> "failed"]
            /\ surfaced' = [surfaced EXCEPT ![i] = [kind |-> r.kind, text |-> r.text]]
            /\ IF r.kind = "generator"
               THEN /\ g_start' = [g_start EXCEPT ![i] = g.start]
                    /\ g_space' = [g_space EXCEPT ![i] = g.space]
                    /\ g_end' = [g_end EXCEPT ![i] = g.end]
               ELSE UNCHANGED <<g_start, g_space, g_end>>
            /\ MarkFatal(i, response, 1)
    /\ UNCHANGED <<started, count, batches, pulls, stops, queryVars, parseVars>>

\* one iteration of the while loop up to the yield, or the exception it raises
Fetch(i, cursor, R) ==
    \E response \in R :
        LET out == page_outcome(response) IN
        /\ reqs' = [reqs EXCEPT ![i] = @ \o page_requests(self, cursor, g_space[i])]
        /\ started' = [started EXCEPT ![i] = TRUE]
        /\ IF out.ok
           THEN /\ count' = [count EXCEPT ![i] = @ + Len(out.val[1])]
                /\ batches' = [batches EXCEPT ![i] =
                                 Append(@, [src |-> Len(reqs[i]) + 1,
                                            items |-> enumerate(out.val[1])])]
                /\ UNCHANGED <<phase, surfaced>>
           ELSE /\ phase' = [phase EXCEPT ![i] = "gen_raised"]
                /\ surfaced' = [surfaced EXCEPT ![i] = [kind |-> "raise", text |-> out.exc]]
                /\ UNCHANGED <<count, batches>>
        /\ MarkFatal(i, response, Len(reqs[i]) + 1)
        /\ UNCHANGED stops

\* the loop's break: the generator returns, next() raises StopIteration
Break(i) ==
    /\ phase' = [phase EXCEPT ![i] = "exhausted"]
    /\ stops' = [stops EXCEPT ![i] = @ + 1]
    /\ UNCHANGED <<started, count, reqs, batches, surfaced, fatalAt>>

\* next(results) on a live generator
Pull(i, R) ==
    /\ phase[i] = "gen"
    /\ pulls' = [pulls EXCEPT ![i] = @ + 1]
    /\ IF started[i]
       THEN /\ g_start' = advance(g_start, i, g_space[i])
            /\ IF loop_breaks(g_start'[i], g_end[i])
               THEN Break(i)
               ELSE Fetch(i, g_start'[i], R)
       ELSE /\ g_start' = g_start
            /\ Fetch(i, g_start[i], R)
    /\ UNCHANGED <<g_space, g_end, meta, queryVars, parseVars>>

\* next(results) on a generator that returned or raised: StopIteration again
PullFinished(i) ==
    /\ phase[i] \in {"exhausted", "gen_raised"}
    /\ pulls[i] < MaxPulls
    /\ pulls' = [pulls EXCEPT ![i] = @ + 1]
    /\ stops' = [stops EXCEPT ![i] = @ + 1]
    /\ UNCHANGED <<phase, started, g_start, g_space, g_end, count, reqs, batches,
                   surfaced, meta, fatalAt, queryVars, parseVars>>

\* SearchQuery(...)
Construct ==
    /\ ~self.built
    /\ self' = SearchQuery(args)
    /\ UNCHANGED <<args, parseVars, genVars>>

\* parse_valid_response(xml)
Parse ==
    /\ ~parsed.done
    /\ parsed' = [done |-> TRUE, result |-> parse_valid_response(xml)]
    /\ UNCHANGED <<xml, queryVars, genVars>>

(***************************************************************************)
(* Specifications.                                                         *)
(***************************************************************************)
NotParsed == [done |-> FALSE, result |-> Raise("")]

InitGen ==
    /\ phase = [i \in Sessions |-> "idle"]
    /\ started = [i \in Sessions |-> FALSE]
    /\ g_start = [i \in Sessions |-> 0]
    /\ g_space = [i \in Sessions |-> 0]
    /\ g_end = [i \in Sessions |-> 0]
    /\ count = [i \in Sessions |-> 0]
    /\ reqs = [i \in Sessions |-> <<>>]
    /\ batches = [i \in Sessions |-> <<>>]
    /\ pulls = [i \in Sessions |-> 0]
    /\ stops = [i \in Sessions |-> 0]
    /\ surfaced = [i \in Sessions |-> NothingSurfaced]
    /\ meta = [i \in Sessions |-> NoResponse]
    /\ fatalAt = [i \in Sessions |-> 0]

\* retrievals on a constructed query
Init ==
    /\ args \in EngineArgs
    /\ self = SearchQuery(args)
    /\ xml = Malformed /\ parsed = NotParsed
    /\ InitGen

\* one retrieval, any answer
Next == \E i \in {1} : Retrieve(i, Responses) \/ Pull(i, Responses) \/ PullFinished(i)

Spec == Init /\ [][Next]_vars

\* two retrievals on the same query object, their pulls interleaved
NextTwo == \E i \in Sessions : Retrieve(i, TwoResponses) \/ Pull(i, TwoResponses)

SpecTwo == Init /\ [][NextTwo]_vars

\* construction of a query from its term groups
InitQuery ==
    /\ args \in QueryArgs
    /\ self = Unbuilt
    /\ xml = Malformed /\ parsed = NotParsed
    /\ InitGen

NextQuery == Construct

SpecQuery == InitQuery /\ [][NextQuery]_vars

\* parsing of one response body
InitParse ==
    /\ args \in {CHOOSE a \in EngineArgs : TRUE}
    /\ self = Unbuilt
    /\ xml \in Documents /\ parsed = NotParsed
    /\ InitGen

NextParse == Parse

SpecParse == InitParse /\ [][NextParse]_vars


(***************************************************************************)
(* Properties of the retrieval.                                            *)
(***************************************************************************)
\* the page requests of retrieval i: every request after the starting one
PageReqs(i) == SubSeq(reqs[i], 2, Len(reqs[i]))

\* the request a batch was parsed from
BatchRequest(i, k) == reqs[i][batches[i][k].src]

\* totalResults of the response to the starting request
TotalKnown(i) == meta[i].text.totalResults[1]

\* the batches a retrieval alone yields from windowStart to totalResults
BatchesDue(windowStart, pageSize, totalResults) ==
    ((totalResults - windowStart) \div pageSize) + 1

\* C1: with windowStart <= totalResults, a consumer that keeps pulling gets
\* exactly floor((totalResults - windowStart) / pageSize) + 1 batches, requested
\* at cursors windowStart, windowStart + pageSize, ... in that order; the
\* sequence is then exhausted and no further request is issued.
C1_BatchCountAndCursors ==
    \A i \in Sessions :
        (phase[i] \in {"gen", "exhausted"} /\ TotalKnown(i) >= self.start) =>
            LET due == BatchesDue(self.start, self.max_result, TotalKnown(i)) IN
            /\ Len(batches[i]) <= due
            /\ Len(PageReqs(i)) = Len(batches[i])
            /\ \A k \in 1..Len(batches[i]) :
                  /\ batches[i][k].src = k + 1
                  /\ BatchRequest(i, k).start = self.start + (k - 1) * self.max_result
                  /\ BatchRequest(i, k).space = self.max_result
            /\ phase[i] = "exhausted" => Len(batches[i]) = due

\* C1 witness: 3 batches at cursors 0, 1, 2 for totalResults = 2, pageSize = 1,
\* and the consumer has pulled on after the exhaustion.
C1_Witness ==
    /\ self.start = 0 /\ self.max_result = 1
    /\ phase[1] = "exhausted" /\ TotalKnown(1) = 2
    /\ Len(batches[1]) = 3
    /\ [k \in 1..3 |-> PageReqs(1)[k].start] = <<0, 1, 2>>
    /\ pulls[1] > 4

\* C2: no page batch is produced from a request whose cursor is strictly
\* greater than totalKnown (whatever windowStart and totalResults are), while
\* a page whose cursor equals totalKnown is still fetched.
C2_NoBatchBeyondTotal ==
    \A i \in Sessions :
        /\ \A k \in 1..Len(batches[i]) : BatchRequest(i, k).start <= g_end[i]
        /\ (phase[i] = "exhausted" /\ (g_end[i] - self.start) % self.max_result = 0
              /\ g_end[i] >= self.start)
               => \E k \in 1..Len(batches[i]) : BatchRequest(i, k).start = g_end[i]

\* C3: a starting request answered with an error envelope (a non-ok response
\* whose body is an envelope with an entry and its summary) surfaces exactly
\* the summary's text, no batch sequence, and no page request follows.
C3_ErrorEnvelopeSurfaced ==
    \A i \in Sessions :
        (phase[i] # "idle" /\ ~meta[i].exc /\ ~meta[i].ok /\ IsErrorEnvelope(meta[i].text)) =>
            /\ phase[i] = "message"
            /\ surfaced[i] = [kind |-> "message", text |-> meta[i].text.entry[1].summary[1]]
            /\ batches[i] = <<>>
            /\ Len(reqs[i]) = 1

\* C3 witness: the message "Invalid id list" has been surfaced.
C3_Witness ==
    /\ phase[1] = "message"
    /\ ~meta[1].ok /\ meta[1].text.entry[1].summary = <<"Invalid id list">>
    /\ surfaced[1].text = "Invalid id list"

\* C4 as stated: at every point the number of page requests issued equals
\* the number of batches the consumer has asked for.
C4_RequestsEqualPulls ==
    \A i \in Sessions : Len(PageReqs(i)) = pulls[i]

\* C4 amended: the page requests issued are as many as the pulls that were
\* not answered with the end of the sequence, one per batch delivered or page
\* failure; they never exceed the pulls, so nothing is fetched ahead of demand.
C4_PullBased ==
    \A i \in Sessions :
        /\ Len(PageReqs(i)) = pulls[i] - stops[i]
        /\ Len(PageReqs(i)) <= pulls[i]
        /\ Len(PageReqs(i)) = Len(batches[i]) + (IF phase[i] = "gen_raised" THEN 1 ELSE 0)
        /\ phase[i] \in {"idle", "message", "failed"} => pulls[i] = 0

\* C4 witness: two batches pulled, two page requests, then the pull that
\* finds the sequence exhausted.
C4_Witness ==
    /\ phase[1] = "exhausted" /\ Len(batches[1]) = 2
    /\ Len(PageReqs(1)) = 2 /\ pulls[1] = 3

\* C5: a fatal condition (a response that is not well-formed XML, or a
\* transport failure) stops the retrieval: the failure reaches the caller and
\* no request follows the one that met it.
C5_FatalStopsRetrieval ==
    \A i \in Sessions :
        fatalAt[i] > 0 =>
            /\ phase[i] \in {"failed", "gen_raised"}
            /\ surfaced[i].kind = "raise"
            /\ Len(reqs[i]) = fatalAt[i]

\* what retrieval i requests when it runs alone: the starting request, then
\* the windows from start in steps of max_result, none after the first past
\* its own totalResults
AloneRequests(i, n) ==
    [k \in 1..n |->
        Request(SearchQuery(args), args.start + (IF k = 1 THEN 0 ELSE k - 2) * args.max_result,
                args.max_result)]

\* C6: a retrieval never changes the query object, and two retrievals of one
\* query each keep their own cursor: interleaved in any way, each requests the
\* cursors it requests alone.
C6_IndependentRetrievals ==
    /\ self = SearchQuery(args)
    /\ \A i \in Sessions :
          /\ reqs[i] = AloneRequests(i, Len(reqs[i]))
          /\ \A k \in 3..Len(reqs[i]) : reqs[i][k].start <= g_end[i]
          /\ (started[i] /\ phase[i] # "exhausted") => g_start[i] = Last(reqs[i]).start
          /\ phase[i] = "exhausted" =>
                /\ g_start[i] > g_end[i]
                /\ g_start[i] = Last(reqs[i]).start + args.max_result

\* C6 witness: both retrievals are under way with different totals; the one
\* with the smaller total is exhausted while the other goes on.
C6_Witness ==
    /\ phase[1] = "exhausted" /\ phase[2] = "gen"
    /\ g_end[1] < g_end[2]
    /\ Len(PageReqs(1)) >= 1 /\ Len(PageReqs(2)) > Len(PageReqs(1))

\* C10: in a successful retrieval the starting window is requested twice (by
\* the starting request, then as the first page), no batch comes from the
\* response to the starting request, the stop bound is that response's
\* totalResults, and k batches have cost k + 1 requests.
C10_StartingWindowTwice ==
    \A i \in Sessions :
        phase[i] \in {"gen", "exhausted"} =>
            /\ reqs[i][1] = StartingRequest(self)
            /\ Len(reqs[i]) >= 2 => reqs[i][2] = reqs[i][1]
            /\ \A k \in 1..Len(batches[i]) : batches[i][k].src = k + 1
            /\ g_end[i] = TotalKnown(i)
            /\ Len(reqs[i]) = Len(batches[i]) + 1

\* C10 witness: the starting response carried an entry, the first page came
\* back empty and a second page followed.
C10_Witness ==
    /\ phase[1] = "gen" /\ Len(batches[1]) = 2
    /\ meta[1].text.entry = <<GoodEntry>>
    /\ batches[1][1].items = <<>>
    /\ Len(reqs[1]) = 3 /\ reqs[1][2] = reqs[1][1]


(***************************************************************************)
(* Properties of the rendered query.                                       *)
(***************************************************************************)
\* the free-text terms with their codes, title then author then abstract
FreeTerms ==
    [k \in 1..Len(args.title_args) |-> <<"ti", args.title_args[k]>>]
    \o [k \in 1..Len(args.author_args) |-> <<"au", args.author_args[k]>>]
    \o [k \in 1..Len(args.abstract_args) |-> <<"abs", args.abstract_args[k]>>]

\* chunk p of the AND-joined tokens: code, ":", term, then the operator
SearchChunk(p) ==
    LET t == FreeTerms[((p - 1) \div 4) + 1] IN
    CASE (p - 1) % 4 = 0 -> t[1]
      [] (p - 1) % 4 = 1 -> ":"
      [] (p - 1) % 4 = 2 -> t[2][1]
      [] OTHER -> "+AND+"

\* chunk p of the comma-joined ids
IdChunk(p) == IF p % 2 = 1 THEN args.id_args[(p + 1) \div 2][1] ELSE ","

ExpectedSearch ==
    IF FreeTerms = <<>> THEN <<>>
    ELSE <<"search_query=">> \o [p \in 1..(4 * Len(FreeTerms) - 1) |-> SearchChunk(p)]

ExpectedIds ==
    IF args.id_args = <<>> THEN <<>>
    ELSE <<"id_list=">> \o [p \in 1..(2 * Len(args.id_args) - 1) |-> IdChunk(p)]

Occurs(chunk, str) == \E p \in 1..Len(str) : str[p] = chunk

\* C7: the rendered query is the base endpoint, then `search_query=` with one
\* code:term token per free-text term (ti, au, abs; title, author, abstract
\* order) joined by AND, present iff a free-text term exists, then `id_list=`
\* with the comma-joined ids, present iff an id term exists.
C7_RenderedQuery ==
    self.built =>
        /\ self.query = BASE_QUERY_URL \o ExpectedSearch \o ExpectedIds
        /\ Occurs("search_query=", self.query) <=> FreeTerms # <<>>
        /\ Occurs("id_list=", self.query) <=> args.id_args # <<>>
        /\ (FreeTerms = <<>> /\ args.id_args = <<>>) => self.query = BASE_QUERY_URL

\* C7 witness: a query with two title terms, an author, an abstract term and
\* two ids has been rendered.
C7_Witness ==
    /\ self.built
    /\ Len(args.title_args) = 2 /\ args.title_args[1] # args.title_args[2]
    /\ Len(args.author_args) = 1 /\ Len(args.abstract_args) = 1
    /\ Len(args.id_args) = 2
    /\ Len(self.query) = 1 + 16 + 4

(***************************************************************************)
(* Properties of the parser.                                               *)
(***************************************************************************)
HasNamedAuthors(entry) == \A k \in 1..Len(entry.author) : entry.author[k].name # <<>>

\* C8: a well-formed envelope in which an entry lacks title, id, summary or
\* published still parses to one record per entry, in document order.
C8_MissingFieldTolerated ==
    (parsed.done /\ xml.wf /\ \A k \in 1..Len(xml.entry) : HasNamedAuthors(xml.entry[k])) =>
        /\ parsed.result.ok
        /\ Len(parsed.result.val[1]) = Len(xml.entry)

====
